---- MODULE Spec2Model ----
(***************************************************************************)
(* Model of the LLM code-generation benchmark harness                      *)
(* (irbull/llm-codegen-benchmark): the reference computation, the scorer,  *)
(* the subprocess sandbox and the per-scale evaluation drivers.            *)
(*                                                                         *)
(* Representation of values.                                               *)
(*  - A user id `user${n}` is the natural number n; LocaleCompare orders   *)
(*    ids as localeCompare orders the strings, digit by digit, so          *)
(*    user10 sorts before user2.                                           *)
(*  - A number that may carry decimals (an avg) is an integer count of     *)
(*    thousandths: 70000 is 70.00, 70004 is 70.004.  Math.round(x*100)/100 *)
(*    is Round2 on such a number (half rounds up, as Math.round does).     *)
(*    Durations are whole numbers, as the Avro schema's int.               *)
(*  - A value that may be null is Null or Some(v).                         *)
(*  - A message assembled by a template literal is the tuple of its parts. *)
(*    The empty string is the empty tuple.                                 *)
(***************************************************************************)
EXTENDS Integers, Sequences, FiniteSets, TLC

VARIABLES
    pc,             \* control point of the running script or function
    events,         \* Event[] handed to the reference computation
    correctAnswer,  \* UserAverage[] the reference computation returned
    expected,       \* compareResults: its first argument
    actual,         \* compareResults: its second argument, Null when absent
    comparison,     \* compareResults: what it returned
    child,          \* the spawned program as its close or error event reports it
    execResult,     \* executeGeneratedCode: what its promise resolved with
    response,       \* the Model Client's reply to askLLMToCompute
    llmResult,      \* askLLMToCompute: what it returned
    driver,         \* which script runs: "context", "codegen", "sort" or "local"
    apiKey,         \* process.env.OPENAI_API_KEY is set
    dataDir,        \* the data directory exists
    codeResult,     \* code-generation driver: what generateCode returned
    i,              \* position of the current size in the driver's size list
    results,        \* the driver's results array
    modelCalls,     \* how many Model Client calls the run has made
    spawns,         \* the code fragments of the subprocesses the run has spawned
    numbers,        \* sorting driver: the array runSingleTest generated
    sample,         \* sorting driver: the sample counter of the inner loop
    samples,        \* sorting driver: passed or failed, per sample of the size
    files,          \* local benchmark: the sorted list of data file names
    processed,      \* local benchmark: what processEvents returned
    current,        \* seeded generator: the state of its random()
    count,          \* generator: how many events the call is to produce
    firstRun,       \* generator: the events an earlier call returned
    dataSize,       \* data generator: the size a file is written for
    filename,       \* data generator: the name of the file it writes
    written,        \* data generator: the names of the files in the data directory
    dirEntries      \* data directory: the names as readdirSync returned them

refVars == <<events, correctAnswer>>
cmpVars == <<expected, actual, comparison>>
candVars == <<child, execResult, response, llmResult>>
drvVars == <<driver, apiKey, dataDir, codeResult, i, results>>
callVars == <<modelCalls, spawns>>
sortVars == <<numbers, sample, samples>>
localVars == <<files, processed>>
genVars == <<current, count, firstRun>>
nameVars == <<dataSize, filename, written, dirEntries>>
extVars == <<callVars, sortVars, localVars, genVars, nameVars>>
vars == <<pc, refVars, cmpVars, candVars, drvVars, extVars>>

----------------------------------------------------------------------------
(* Bounds of the model *)

\* longest event sequence handed to the reference computation
MaxEvents == 3

\* longest expected sequence handed to the scorer
MaxExpected == 2

\* longest candidate sequence (a model's or a generated program's output)
MaxActual == 2

\* how many sizes of its size list a driver run works through
MaxScales == 2

\* longest array handed to the sorting check
MaxSortLen == 2

\* how many names the data directory of the local benchmark holds at most
MaxFiles == 2

\* largest count generateEvents is called with
MaxCount == 4

\* Math.random() returns a multiple of 1 / RandomGrid
RandomGrid == 256

\* longest event sequence a driver run generates or reads from a file
MaxDriverEvents == 1

\* longest candidate sequence a driver run receives
MaxDriverActual == 1

\* user ids that occur: user1, user2 and user10 (of user1..user50)
Users == {1, 2, 10}

\* durations that occur (of MIN_DURATION..MAX_DURATION): below, at and above
\* the filter threshold
Durations == {40, 50, 60, 80}

\* averages of expected entries handed to the scorer
ExpectedAvgs == {60000, 70000}

\* averages of candidate entries: 70.00, off by 0.04, off by 0.20.  A
\* candidate exactly 0.10 away is left out: between binary doubles such a
\* difference falls on either side of the literal 0.1.
ActualAvgs == {70000, 70040, 70200}

\* what occurs in a driver run: events of user1 and user2 with a duration
\* below or above the filter threshold, candidate averages that are exact or
\* 0.20 off, one generated code fragment or another
DriverUsers == {1, 2}
DriverDurations == {40, 60}
DriverAvgs == {60000, 60200}
GeneratedCodes == {"fragment A", "fragment B"}

\* numbers of the arrays to sort (of MIN_VALUE..MAX_VALUE)
SortValues == {1, 2, 3}

\* averages a model or a generated program writes, before normalization:
\* 70.00, 70.004 and 70.005 (more than two decimals), 70.20
RawAvgs == {70000, 70004, 70005, 70200}

\* exit codes of the spawned program
ExitCodes == {0, 1}

\* what the spawned program writes to standard error: nothing, or "boom"
StderrTexts == {<<>>, <<"boom">>}

\* messages of a failed Model Client call or a failed spawn
ErrorMessages == {<<"request failed">>}

----------------------------------------------------------------------------
(* Values *)

Null == [some |-> FALSE]
Some(v) == [some |-> TRUE, val |-> v]

Event == [userId : Users, duration : Durations]

SeqsUpTo(S, n) == UNION {[1..k -> S] : k \in 0..n}

EventSeqs == SeqsUpTo(Event, MaxEvents)

\* no comparison made yet
NoComparison == [match |-> FALSE, correctCount |-> 0, totalCount |-> 0, accuracy |-> 0]

\* no subprocess spawned, no reply received, nothing returned yet
NoChild == [event |-> "none"]
NoResponse == [ok |-> FALSE, message |-> <<"none">>]
NoResult == [result |-> Null, error |-> <<"none">>]

\* generateCode not called yet
NoCode == [code |-> "", error |-> <<"none">>]

\* Math.round(0 / 0 * 100): not a number.  Every number the harness rounds
\* is 0 or more, so -1 stands for it.
NaN == -1

Abs(x) == IF x < 0 THEN -x ELSE x

\* no call made and no subprocess spawned yet
NoCalls == modelCalls = 0 /\ spawns = <<>>

\* the sorting driver is not running
NoSort == numbers = <<>> /\ sample = 0 /\ samples = <<>>

\* the local benchmark is not running
NoLocal == files = <<>> /\ processed = <<>>

\* no generator call is running
NoGenerator == current = 0 /\ count = 0 /\ firstRun = <<>>

\* the data generator is not running
NoNames == dataSize = 0 /\ filename = <<>> /\ written = <<>> /\ dirEntries = <<>>

----------------------------------------------------------------------------
(* String comparison of ids *)

RECURSIVE Digits(_)
\* the decimal digits of n, as `${n}` writes them
Digits(n) == IF n < 10 THEN <<n>> ELSE Digits(n \div 10) \o <<n % 10>>

RECURSIVE LexCompare(_, _)
\* -1, 0 or 1: s before, equal to or after t, character by character
LexCompare(s, t) ==
    IF s = <<>> /\ t = <<>> THEN 0
    ELSE IF s = <<>> THEN -1
    ELSE IF t = <<>> THEN 1
    ELSE IF Head(s) < Head(t) THEN -1
    ELSE IF Head(s) > Head(t) THEN 1
    ELSE LexCompare(Tail(s), Tail(t))

\* a.localeCompare(b) for a = `user${a}`, b = `user${b}`
LocaleCompare(a, b) == LexCompare(Digits(a), Digits(b))

\* mutant of CompareById: the ids compared by their number, not as strings
CompareByNumber(a, b) == IF a.id < b.id THEN -1 ELSE IF a.id > b.id THEN 1 ELSE 0

\* the comparator (a, b) => a.id.localeCompare(b.id)
CompareById(a, b) == LocaleCompare(a.id, b.id)

RECURSIVE SortByIdUnstable(_)
\* mutant of SortById: a sort that is not stable, an entry is put in front of
\* the entries of equal id
SortByIdUnstable(s) ==
    IF s = <<>> THEN <<>>
    ELSE LET init == SortByIdUnstable(SubSeq(s, 1, Len(s) - 1))
             x    == s[Len(s)]
         IN  SelectSeq(init, LAMBDA e : CompareById(e, x) < 0)
                 \o <<x>>
                 \o SelectSeq(init, LAMBDA e : CompareById(e, x) >= 0)

RECURSIVE SortById(_)
\* Array.prototype.sort with CompareById: a stable sort
SortById(s) ==
    IF s = <<>> THEN <<>>
    ELSE LET init == SortById(SubSeq(s, 1, Len(s) - 1))
             x    == s[Len(s)]
         IN  SelectSeq(init, LAMBDA e : CompareById(e, x) <= 0)
                 \o <<x>>
                 \o SelectSeq(init, LAMBDA e : CompareById(e, x) > 0)

----------------------------------------------------------------------------
(* Data file names: a name is the sequence of its characters *)

DigitChars == <<"0", "1", "2", "3", "4", "5", "6", "7", "8", "9">>

\* `${n}` for a whole number n
NumberText(n) == [k \in 1..Len(Digits(n)) |-> DigitChars[Digits(n)[k] + 1]]

RECURSIVE FractionText(_, _)
\* the decimals of r / unit for 0 <= r < unit, unit a power of ten: digits up
\* to the last one that is not 0
FractionText(r, unit) ==
    IF r = 0 THEN <<>>
    ELSE <<DigitChars[((10 * r) \div unit) + 1]>> \o FractionText((10 * r) % unit, unit)

\* `${n / unit}`: the whole part, and a point and the decimals when n is not
\* a multiple of unit
QuotientText(n, unit) ==
    NumberText(n \div unit)
        \o (IF n % unit = 0 THEN <<>> ELSE <<".">> \o FractionText(n % unit, unit))

\* mutant of DataSuffix: the thousands written out, no "k"
DataSuffixPlain(n) ==
    IF n >= 1000000 THEN QuotientText(n, 1000000) \o <<"m">> ELSE NumberText(n)

\* data generator: the suffix of the file written for a size
DataSuffix(n) ==
    IF n >= 1000000 THEN QuotientText(n, 1000000) \o <<"m">>
    ELSE IF n >= 1000 THEN QuotientText(n, 1000) \o <<"k">>
    ELSE NumberText(n)

\* data generator: `events-${suffix}.avro`
DataFileName(n) ==
    <<"e", "v", "e", "n", "t", "s", "-">> \o DataSuffix(n) \o <<".", "a", "v", "r", "o">>

\* code-generation driver: the suffix of the file looked up for a size
LookupSuffix(n) ==
    IF n >= 1000000 THEN QuotientText(n, 1000000) \o <<"m">>
    ELSE IF n >= 1000 THEN QuotientText(n, 1000) \o <<"k">>
    ELSE NumberText(n)

\* code-generation driver: the name of join(dataDir, `events-${suffix}.avro`)
LookupFileName(n) ==
    <<"e", "v", "e", "n", "t", "s", "-">> \o LookupSuffix(n) \o <<".", "a", "v", "r", "o">>

\* name has the characters of part from position p on
HasAt(name, p, part) ==
    /\ p + Len(part) - 1 <= Len(name)
    /\ \A k \in 1..Len(part) : name[p + k - 1] = part[k]

\* f.endsWith(".avro")
EndsWithAvro(name) ==
    Len(name) >= 5 /\ HasAt(name, Len(name) - 4, <<".", "a", "v", "r", "o">>)

IsDigitChar(c) == \E d \in 1..10 : DigitChars[d] = c

DigitValue(c) == (CHOOSE d \in 1..10 : DigitChars[d] = c) - 1

RECURSIVE ParseInt(_)
\* parseInt of a sequence of digits
ParseInt(ds) ==
    IF ds = <<>> THEN 0
    ELSE 10 * ParseInt(SubSeq(ds, 1, Len(ds) - 1)) + DigitValue(ds[Len(ds)])

\* how many digits name has from position p on
RECURSIVE DigitRun(_, _)
DigitRun(name, p) ==
    IF p <= Len(name) /\ IsDigitChar(name[p]) THEN 1 + DigitRun(name, p + 1) ELSE 0

\* /events-(\d+)(k|m)?\.avro/ matched from position p: Null, or the digits
\* and the letter ("" when there is none).  \d+ takes every digit there is:
\* what follows it in the pattern is no digit.
MatchAt(name, p) ==
    LET q  == p + 7
        n  == DigitRun(name, q)
        r  == q + n
        km == r <= Len(name) /\ name[r] \in {"k", "m"}
    IN  IF ~HasAt(name, p, <<"e", "v", "e", "n", "t", "s", "-">>) \/ n = 0
        THEN Null
        ELSE IF km /\ HasAt(name, r + 1, <<".", "a", "v", "r", "o">>)
        THEN Some([num |-> SubSeq(name, q, r - 1), unit |-> name[r]])
        ELSE IF HasAt(name, r, <<".", "a", "v", "r", "o">>)
        THEN Some([num |-> SubSeq(name, q, r - 1), unit |-> ""])
        ELSE Null

\* mutant of getSize: the letter m counted as a thousand
getSizeThousands(name) ==
    LET ps == {p \in 1..Len(name) : MatchAt(name, p).some}
    IN  IF ps = {} THEN 0
        ELSE LET match == MatchAt(name, CHOOSE p \in ps : \A o \in ps : p <= o).val
             IN  ParseInt(match.num) * (IF match.unit \in {"k", "m"} THEN 1000 ELSE 1)

\* getSize(name): the first match in the name, 0 when there is none
getSize(name) ==
    LET ps == {p \in 1..Len(name) : MatchAt(name, p).some}
    IN  IF ps = {} THEN 0
        ELSE LET match == MatchAt(name, CHOOSE p \in ps : \A o \in ps : p <= o).val
             IN  ParseInt(match.num)
                    * (IF match.unit = "m" THEN 1000000
                       ELSE IF match.unit = "k" THEN 1000 ELSE 1)

RECURSIVE SortBySize(_)
\* Array.prototype.sort with (a, b) => getSize(a) - getSize(b): a stable sort
SortBySize(names) ==
    IF names = <<>> THEN <<>>
    ELSE LET init == SortBySize(SubSeq(names, 1, Len(names) - 1))
             x    == names[Len(names)]
         IN  SelectSeq(init, LAMBDA e : getSize(e) - getSize(x) <= 0)
                 \o <<x>>
                 \o SelectSeq(init, LAMBDA e : getSize(e) - getSize(x) > 0)

\* readdirSync(dataDir).filter(...).sort(...)
DataFiles(listing) == SortBySize(SelectSeq(listing, EndsWithAvro))

----------------------------------------------------------------------------
(* Synthetic data generators *)

\* NUM_USERS, MIN_DURATION, MAX_DURATION
NUM_USERS == 50
MIN_DURATION == 10
MAX_DURATION == 200

\* the seed, the multiplier and the increment of the seeded random()
Seed == 12345
Multiplier == 1103515245
Increment == 12345

\* 0x7fffffff
Mask31 == 2147483647

(* The state of random() goes through the arithmetic of doubles: the product
   current * 1103515245 has up to 62 bits and is rounded to the 53 bits of a
   double, so is the sum with 12345, and & 0x7fffffff keeps the low 31 bits
   of the result.  A number of that size is held as its digits in base
   2^15, lowest first. *)
Limb == 32768

\* a number below 2^31 in five limbs
ToLimbs(n) == <<n % Limb, (n \div Limb) % Limb, n \div (Limb * Limb), 0, 0>>

\* the exact product of two numbers below 2^31
MulLimbs(c, a) ==
    LET s0 == c[1] * a[1]
        s1 == c[1] * a[2] + c[2] * a[1] + (s0 \div Limb)
        s2 == c[1] * a[3] + c[2] * a[2] + c[3] * a[1] + (s1 \div Limb)
        s3 == c[2] * a[3] + c[3] * a[2] + (s2 \div Limb)
        s4 == c[3] * a[3] + (s3 \div Limb)
    IN  <<s0 % Limb, s1 % Limb, s2 % Limb, s3 % Limb, s4>>

RECURSIVE AddAt(_, _, _)
\* x added to limb k and the carry passed on
AddAt(l, k, x) ==
    IF x = 0 \/ k > Len(l) THEN l
    ELSE AddAt([l EXCEPT ![k] = (l[k] + x) % Limb], k + 1, (l[k] + x) \div Limb)

RECURSIVE Pow2(_)
Pow2(n) == IF n = 0 THEN 1 ELSE 2 * Pow2(n - 1)

\* how many bits the number has
BitLength(l) ==
    LET tops == {k \in 1..Len(l) : l[k] # 0}
    IN  IF tops = {} THEN 0
        ELSE LET t == CHOOSE k \in tops : \A o \in tops : o <= k
             IN  15 * (t - 1) + (CHOOSE b \in 1..15 : Pow2(b - 1) <= l[t] /\ l[t] < Pow2(b))

\* the double nearest to the number: 53 bits are kept, a tie goes to the
\* even neighbour
ToDouble(l) ==
    LET s    == IF BitLength(l) > 53 THEN BitLength(l) - 53 ELSE 0
        unit == Pow2(s)
        r    == l[1] % unit
        odd  == (l[1] \div unit) % 2 = 1
        up   == s > 0 /\ (2 * r > unit \/ (2 * r = unit /\ odd))
        kept == [l EXCEPT ![1] = l[1] - r]
    IN  IF up THEN AddAt(kept, 1, unit) ELSE kept

\* x & 0x7fffffff
Low31(l) == l[1] + l[2] * Limb + (l[3] % 2) * (Limb * Limb)

\* (current * 1103515245 + 12345) & 0x7fffffff
NextCurrent(cur) ==
    Low31(ToDouble(AddAt(ToDouble(MulLimbs(ToLimbs(cur), ToLimbs(Multiplier))),
                         1, Increment)))

\* mutant of FloorScaled: Math.round in place of Math.floor
RoundScaled(r, den, n) ==
    LET q == den \div (2 * n)
        m == den % (2 * n)
    IN  Cardinality({k \in 1..n : r >= (2 * k - 1) * q + (((2 * k - 1) * m + 2 * n - 1) \div (2 * n))})

\* Math.floor((r / den) * n) for a random value r / den: how many k of 1..n
\* have k * den <= r * n, that is r >= ceil(k * den / n).  The two roundings
\* of the doubles never reach the next whole number: den is 2^31 - 1, a
\* prime, or a small power of two.
FloorScaled(r, den, n) ==
    LET q == den \div n
        m == den % n
    IN  Cardinality({k \in 1..n : r >= k * q + ((k * m + n - 1) \div n)})

\* the event made of two random values r1 / den and r2 / den
EventOf(r1, r2, den) ==
    [userId   |-> FloorScaled(r1, den, NUM_USERS) + 1,
     duration |-> FloorScaled(r2, den, MAX_DURATION - MIN_DURATION + 1) + MIN_DURATION]

----------------------------------------------------------------------------
(* Reference computation *)

\* mutant of Round2: Math.floor in place of Math.round
Floor2(x) == 10 * (x \div 10)

\* Math.round(x * 100) / 100 of a number given in thousandths
Round2(x) == 10 * ((x + 5) \div 10)

\* mutant of RoundedMean: Math.floor in place of Math.round
TruncatedMean(sum, length) == 10 * ((100 * sum) \div length)

\* Math.round((sum / length) * 100) / 100, in thousandths
RoundedMean(sum, length) == 10 * ((200 * sum + length) \div (2 * length))

RECURSIVE SumDurations(_)
\* group.reduce((a, b) => a + b.duration, 0)
SumDurations(group) ==
    IF group = <<>> THEN 0
    ELSE SumDurations(SubSeq(group, 1, Len(group) - 1)) + group[Len(group)].duration

\* events.filter((e) => e.duration >= 50)
FilterEvents(evs) == SelectSeq(evs, LAMBDA e : e.duration >= 50)

RECURSIVE GroupKeys(_)
\* the keys of Object.groupBy(filtered, (e) => e.userId), in insertion order
GroupKeys(filtered) ==
    IF filtered = <<>> THEN <<>>
    ELSE LET init == GroupKeys(SubSeq(filtered, 1, Len(filtered) - 1))
             k    == filtered[Len(filtered)].userId
         IN  IF \E j \in 1..Len(init) : init[j] = k THEN init ELSE Append(init, k)

\* the group Object.groupBy holds under key id
GroupOf(filtered, id) == SelectSeq(filtered, LAMBDA e : e.userId = id)

computeCorrectAnswer(evs) ==
    LET filtered == FilterEvents(evs)
        keys     == GroupKeys(filtered)
        result   == [k \in 1..Len(keys) |->
                        [id  |-> keys[k],
                         avg |-> RoundedMean(SumDurations(GroupOf(filtered, keys[k])),
                                             Len(GroupOf(filtered, keys[k])))]]
    IN  SortById(result)

\* sum / length as the local benchmark leaves it, not rounded: the number
\* num / den, in thousandths
Mean(sum, length) == [num |-> 1000 * sum, den |-> length]

\* mutant of processEvents: the filter keeps durations above 50 only
processEventsStrict(evs) ==
    LET filtered == SelectSeq(evs, LAMBDA e : e.duration > 50)
        keys     == GroupKeys(filtered)
    IN  [k \in 1..Len(keys) |->
            [id  |-> keys[k],
             avg |-> Mean(SumDurations(GroupOf(filtered, keys[k])),
                          Len(GroupOf(filtered, keys[k])))]]

\* processEvents of the local benchmark: filter, Object.groupBy, the mean of
\* each group, in the order Object.entries gives (insertion order)
processEvents(evs) ==
    LET filtered == FilterEvents(evs)
        keys     == GroupKeys(filtered)
    IN  [k \in 1..Len(keys) |->
            [id  |-> keys[k],
             avg |-> Mean(SumDurations(GroupOf(filtered, keys[k])),
                          Len(GroupOf(filtered, keys[k])))]]

----------------------------------------------------------------------------
(* The reference computation applied to an event sequence *)

InitRef ==
    /\ pc = "ref_input"
    /\ events \in EventSeqs
    /\ correctAnswer = <<>>
    /\ expected = <<>>
    /\ actual = Null
    /\ comparison = NoComparison
    /\ child = NoChild
    /\ execResult = NoResult
    /\ response = NoResponse
    /\ llmResult = NoResult
    /\ driver = "none"
    /\ apiKey = FALSE
    /\ dataDir = FALSE
    /\ codeResult = NoCode
    /\ i = 0
    /\ results = <<>>
    /\ NoCalls
    /\ NoSort
    /\ NoLocal
    /\ NoGenerator
    /\ NoNames

ComputeCorrectAnswer ==
    /\ pc = "ref_input"
    /\ correctAnswer' = computeCorrectAnswer(events)
    /\ pc' = "ref_done"
    /\ UNCHANGED <<events, cmpVars, candVars, drvVars, extVars>>

NextRef == ComputeCorrectAnswer

\* the local benchmark's processEvents applied to the same events
ProcessEvents ==
    /\ pc = "ref_done"
    /\ processed' = processEvents(events)
    /\ pc' = "proc_done"
    /\ UNCHANGED <<files, refVars, cmpVars, candVars, drvVars, callVars, sortVars,
                   genVars, nameVars>>

NextProcess == ComputeCorrectAnswer \/ ProcessEvents

\* the reference computation and processEvents, one after the other
SpecProcess == InitRef /\ [][NextProcess]_vars

SpecRef == InitRef /\ [][NextRef]_vars

----------------------------------------------------------------------------
(* Scorer *)

\* the index of the first a of arr with a.id = id, 0 when there is none:
\* the entry actual.find((a) => a.id === exp.id) returns
FindIndex(arr, id) ==
    IF \E k \in 1..Len(arr) : arr[k].id = id
    THEN CHOOSE k \in 1..Len(arr) :
            /\ arr[k].id = id
            /\ \A m \in 1..(k - 1) : arr[m].id # id
    ELSE 0

\* mutant of IsCorrect: the tolerance test dropped, the id found is enough
IsFound(exp, arr) == FindIndex(arr, exp.id) # 0

\* act && Math.abs(act.avg - exp.avg) < 0.1
IsCorrect(exp, arr) ==
    LET k == FindIndex(arr, exp.id)
    IN  /\ k # 0
        /\ Abs(arr[k].avg - exp.avg) < 100

RECURSIVE CountCorrect(_, _)
\* the loop over expected that increments correctCount
CountCorrect(exps, arr) ==
    IF exps = <<>> THEN 0
    ELSE CountCorrect(SubSeq(exps, 1, Len(exps) - 1), arr)
            + (IF IsCorrect(exps[Len(exps)], arr) THEN 1 ELSE 0)

\* Math.round((correctCount / length) * 100)
RoundedPercent(correctCount, length) ==
    IF length = 0 THEN NaN
    ELSE (200 * correctCount + length) \div (2 * length)

\* mutant of IsMatch: the length test dropped
IsMatchCountOnly(correctCount, exps, arr) == correctCount = Len(exps)

\* correctCount === expected.length && actual.length === expected.length
IsMatch(correctCount, exps, arr) ==
    correctCount = Len(exps) /\ Len(arr) = Len(exps)

compareResults(exps, act) ==
    IF ~act.some
    THEN [match |-> FALSE, correctCount |-> 0, totalCount |-> Len(exps), accuracy |-> 0]
    ELSE LET correctCount == CountCorrect(exps, act.val)
         IN  [match        |-> IsMatch(correctCount, exps, act.val),
              correctCount |-> correctCount,
              totalCount   |-> Len(exps),
              accuracy     |-> RoundedPercent(correctCount, Len(exps))]

----------------------------------------------------------------------------
(* The scorer applied to an expected and a candidate sequence *)

ExpectedEntry == [id : Users, avg : ExpectedAvgs]
ActualEntry == [id : Users, avg : ActualAvgs]

InitCompare ==
    /\ pc = "cmp_input"
    /\ expected \in SeqsUpTo(ExpectedEntry, MaxExpected)
    /\ actual \in {Null} \cup {Some(a) : a \in SeqsUpTo(ActualEntry, MaxActual)}
    /\ comparison = NoComparison
    /\ events = <<>>
    /\ correctAnswer = <<>>
    /\ child = NoChild
    /\ execResult = NoResult
    /\ response = NoResponse
    /\ llmResult = NoResult
    /\ driver = "none"
    /\ apiKey = FALSE
    /\ dataDir = FALSE
    /\ codeResult = NoCode
    /\ i = 0
    /\ results = <<>>
    /\ NoCalls
    /\ NoSort
    /\ NoLocal
    /\ NoGenerator
    /\ NoNames

CompareResults ==
    /\ pc = "cmp_input"
    /\ comparison' = compareResults(expected, actual)
    /\ pc' = "cmp_done"
    /\ UNCHANGED <<expected, actual, refVars, candVars, drvVars, extVars>>

NextCompare == CompareResults

SpecCompare == InitCompare /\ [][NextCompare]_vars

----------------------------------------------------------------------------
(* Candidate output: the text a generated program prints or a model replies *)

RawEntry == [id : Users, avg : RawAvgs]
RawSeqs == SeqsUpTo(RawEntry, MaxActual)

\* A text by what JSON.parse makes of it after trim():
\*   "empty"   nothing was written
\*   "text"    text that is not JSON
\*   "extra"   the JSON line of doc beside other output
\*   "scalar"  valid JSON that is not an array
\*   "array"   the JSON array doc of {id, avg} objects
OutputTextsOf(docs) ==
    {[kind |-> k, doc |-> <<>>] : k \in {"empty", "text", "scalar"}}
        \cup {[kind |-> k, doc |-> d] : k \in {"extra", "array"}, d \in docs}

OutputTexts == OutputTextsOf(RawSeqs)

\* text.substring(0, 200), the start of a text quoted in a message: it is
\* told apart by the kind of the text only
Snippet(text) == text.kind

\* JSON.parse(text.trim()) returns rather than throws ("object": the text is
\* a JSON object)
JsonParses(text) == text.kind \in {"scalar", "array", "object"}

\* result.map(...) can be called: the parsed value is an array
IsArray(text) == text.kind = "array"

\* result.map((r) => ({id: r.id, avg: Math.round(r.avg * 100) / 100}))
\*       .sort((a, b) => a.id.localeCompare(b.id))
Normalize(doc) ==
    SortById([k \in 1..Len(doc) |-> [id |-> doc[k].id, avg |-> Round2(doc[k].avg)]])

----------------------------------------------------------------------------
(* Code-execution sandbox: the close and error handlers of the child *)

\* mutant of CloseResult: standard output parsed whatever the exit code
CloseResultIgnoringCode(code, stdout, stderr) ==
    IF JsonParses(stdout) /\ IsArray(stdout)
    THEN [result |-> Some(Normalize(stdout.doc))]
    ELSE [result |-> Null, error |-> <<"Failed to parse output: ", Snippet(stdout)>>]

\* mutant of CloseResult: no try around the parse, the handler throws and
\* the promise is never resolved
CloseResultUncaught(code, stdout, stderr) ==
    IF code # 0
    THEN [result |-> Null,
          error  |-> IF stderr # <<>> THEN stderr
                     ELSE <<"Process exited with code ", ToString(code)>>]
    ELSE IF JsonParses(stdout) /\ IsArray(stdout)
         THEN [result |-> Some(Normalize(stdout.doc))]
         ELSE [uncaught |-> <<"SyntaxError">>]

\* child.on("close", (code) => ...): what the promise resolves with
CloseResult(code, stdout, stderr) ==
    IF code # 0
    THEN [result |-> Null,
          error  |-> IF stderr # <<>> THEN stderr
                     ELSE <<"Process exited with code ", ToString(code)>>]
    ELSE IF JsonParses(stdout) /\ IsArray(stdout)
         THEN [result |-> Some(Normalize(stdout.doc))]
         ELSE [result |-> Null, error |-> <<"Failed to parse output: ", Snippet(stdout)>>]

\* child.on("error", (err) => ...): what the promise resolves with
SpawnErrorResult(message) == [result |-> Null, error |-> message]

ChildOutcomesOf(outputs) ==
    {[event |-> "close", code |-> c, stdout |-> o, stderr |-> e] :
        c \in ExitCodes, o \in outputs, e \in StderrTexts}
    \cup {[event |-> "error", message |-> m] : m \in ErrorMessages}

ChildOutcomes == ChildOutcomesOf(OutputTexts)

----------------------------------------------------------------------------
(* Context loading: what askLLMToCompute makes of the Model Client's reply *)

\* The reply text: body as the model wrote it, bare ("none"), inside a
\* ```json fence ("json") or inside a fence of another language ("other")
Fences == {"none", "json", "other"}

\* the text left by trim() and the two replace() calls: a ```json fence or a
\* bare ``` fence is removed, the language tag of any other fence stays
StripFence(fence, body) ==
    IF fence = "other" /\ body.kind \in {"scalar", "array", "object"}
    THEN [kind |-> "extra", doc |-> body.doc]
    ELSE body

\* askLLMToCompute after a reply: the try around JSON.parse, map and sort
ReplyResult(fence, body) ==
    LET jsonStr == StripFence(fence, body)
    IN  IF JsonParses(jsonStr) /\ IsArray(jsonStr)
        THEN [success |-> TRUE, result |-> Some(Normalize(jsonStr.doc))]
        ELSE [success |-> FALSE, result |-> Null,
              error   |-> <<"Failed to parse response: ", Snippet(body), "...">>]

\* askLLMToCompute after the call threw: error is apiError.message
ApiErrorResult(message) == [success |-> FALSE, result |-> Null, error |-> message]

ResponsesOf(outputs) ==
    {[ok |-> TRUE, fence |-> f, body |-> b] : f \in Fences, b \in outputs}
    \cup {[ok |-> FALSE, message |-> m] : m \in ErrorMessages \cup {<<>>}}

Responses == ResponsesOf(OutputTexts)

----------------------------------------------------------------------------
(* The two ways a candidate is obtained, applied to an outcome *)

InitCandidate ==
    /\ pc = "cand_input"
    /\ \/ child \in ChildOutcomes /\ response = NoResponse
       \/ child = NoChild /\ response \in Responses
    /\ execResult = NoResult
    /\ llmResult = NoResult
    /\ events = <<>>
    /\ correctAnswer = <<>>
    /\ expected = <<>>
    /\ actual = Null
    /\ comparison = NoComparison
    /\ driver = "none"
    /\ apiKey = FALSE
    /\ dataDir = FALSE
    /\ codeResult = NoCode
    /\ i = 0
    /\ results = <<>>
    /\ NoCalls
    /\ NoSort
    /\ NoLocal
    /\ NoGenerator
    /\ NoNames

OnClose ==
    /\ pc = "cand_input"
    /\ child.event = "close"
    /\ execResult' = CloseResult(child.code, child.stdout, child.stderr)
    /\ pc' = "exec_done"
    /\ UNCHANGED <<child, response, llmResult, refVars, cmpVars, drvVars, extVars>>

OnError ==
    /\ pc = "cand_input"
    /\ child.event = "error"
    /\ execResult' = SpawnErrorResult(child.message)
    /\ pc' = "exec_done"
    /\ UNCHANGED <<child, response, llmResult, refVars, cmpVars, drvVars, extVars>>

OnReply ==
    /\ pc = "cand_input"
    /\ child = NoChild
    /\ response.ok
    /\ llmResult' = ReplyResult(response.fence, response.body)
    /\ pc' = "llm_done"
    /\ UNCHANGED <<child, response, execResult, refVars, cmpVars, drvVars, extVars>>

OnApiError ==
    /\ pc = "cand_input"
    /\ child = NoChild
    /\ ~response.ok
    /\ llmResult' = ApiErrorResult(response.message)
    /\ pc' = "llm_done"
    /\ UNCHANGED <<child, response, execResult, refVars, cmpVars, drvVars, extVars>>

NextCandidate == OnClose \/ OnError \/ OnReply \/ OnApiError

SpecCandidate == InitCandidate /\ [][NextCandidate]_vars

----------------------------------------------------------------------------
(* The generators run by themselves *)

\* nothing of the drivers, the scorer or the sandbox is running
Idle ==
    /\ events = <<>>
    /\ correctAnswer = <<>>
    /\ expected = <<>>
    /\ actual = Null
    /\ comparison = NoComparison
    /\ child = NoChild
    /\ execResult = NoResult
    /\ response = NoResponse
    /\ llmResult = NoResult
    /\ driver = "none"
    /\ apiKey = FALSE
    /\ dataDir = FALSE
    /\ codeResult = NoCode
    /\ i = 0
    /\ results = <<>>
    /\ NoCalls
    /\ NoSort
    /\ NoLocal
    /\ NoNames

InitGenerator ==
    /\ pc = "gen_idle"
    /\ NoGenerator
    /\ Idle

\* mutant of CallGenerateEvents: the state of random() lives outside the
\* function and is set the first time only
CallGenerateEventsKeepingState ==
    /\ pc = "gen_idle"
    /\ \E n \in 0..MaxCount : count' = n
    /\ current' = IF firstRun = <<>> THEN Seed ELSE current
    /\ events' = <<>>
    /\ pc' = "gen_loop"
    /\ UNCHANGED <<firstRun, correctAnswer, cmpVars, candVars, drvVars, callVars,
                   sortVars, localVars, nameVars>>

\* generateEvents(count) is called: current = seed, events = []
CallGenerateEvents ==
    /\ pc = "gen_idle"
    /\ \E n \in 0..MaxCount : count' = n
    /\ current' = Seed
    /\ events' = <<>>
    /\ pc' = "gen_loop"
    /\ UNCHANGED <<firstRun, correctAnswer, cmpVars, candVars, drvVars, callVars,
                   sortVars, localVars, nameVars>>

\* one iteration of the loop: random() for the user, random() for the
\* duration, the event is pushed
GenerateSeeded ==
    /\ pc = "gen_loop"
    /\ Len(events) < count
    /\ LET c1 == NextCurrent(current)
           c2 == NextCurrent(c1)
       IN  /\ events' = Append(events, EventOf(c1, c2, Mask31))
           /\ current' = c2
    /\ UNCHANGED <<pc, count, firstRun, correctAnswer, cmpVars, candVars, drvVars,
                   callVars, sortVars, localVars, nameVars>>

\* the loop is over: events is returned.  The first array returned is kept
\* for comparison and the function is called once more.
ReturnEvents ==
    /\ pc = "gen_loop"
    /\ Len(events) = count
    /\ IF firstRun = <<>>
       THEN /\ firstRun' = <<[count |-> count, events |-> events]>>
            /\ pc' = "gen_idle"
       ELSE /\ firstRun' = firstRun
            /\ pc' = "gen_done"
    /\ UNCHANGED <<events, current, count, correctAnswer, cmpVars, candVars, drvVars,
                   callVars, sortVars, localVars, nameVars>>

NextGenerator == CallGenerateEvents \/ GenerateSeeded \/ ReturnEvents

SpecGenerator == InitGenerator /\ [][NextGenerator]_vars

(* Every event a generator can produce.  Of the array a loop fills the last
   event pushed is kept; the seeded loop runs on for any count. *)
InitEvents ==
    /\ pc \in {"seeded", "unseeded"}
    /\ current = IF pc = "seeded" THEN Seed ELSE 0
    /\ count = 0
    /\ firstRun = <<>>
    /\ Idle

\* one iteration of the loop of the seeded generateEvents
SeededEvent ==
    /\ pc = "seeded"
    /\ LET c1 == NextCurrent(current)
           c2 == NextCurrent(c1)
       IN  /\ events' = <<EventOf(c1, c2, Mask31)>>
           /\ current' = c2
    /\ UNCHANGED <<pc, count, firstRun, correctAnswer, cmpVars, candVars, drvVars,
                   callVars, sortVars, localVars, nameVars>>

\* generateEvent() of the data generator, and one iteration of the unseeded
\* generateEvents: Math.random() returns r / RandomGrid, a value of [0, 1)
UnseededEvent ==
    /\ pc = "unseeded"
    /\ \E r1, r2 \in 0..(RandomGrid - 1) :
          events' = <<EventOf(r1, r2, RandomGrid)>>
    /\ pc' = "unseeded_done"
    /\ UNCHANGED <<correctAnswer, cmpVars, candVars, drvVars, extVars>>

NextEvents == SeededEvent \/ UnseededEvent

SpecEvents == InitEvents /\ [][NextEvents]_vars

----------------------------------------------------------------------------
(* Evaluation drivers: the context-loading and the code-generation script *)

\* TEST_SIZES of the context-loading driver
TEST_SIZES_CONTEXT == <<10, 100, 1000, 10000>>

\* TEST_SIZES of the code-generation driver
TEST_SIZES_CODEGEN == <<100, 1000, 10000, 100000, 1000000>>

\* ARRAY_SIZES and SAMPLES_PER_SIZE of the sorting driver
ARRAY_SIZES == <<10, 20, 30, 40, 50, 60, 70, 80, 90, 100, 110, 120, 130, 140, 150>>
SAMPLES_PER_SIZE == 10

\* the sizes a run of driver d works through: the first MaxScales of its list
SizesOf(d) ==
    LET all == IF d = "context" THEN TEST_SIZES_CONTEXT
               ELSE IF d = "sort" THEN ARRAY_SIZES
               ELSE TEST_SIZES_CODEGEN
    IN  SubSeq(all, 1, IF MaxScales < Len(all) THEN MaxScales ELSE Len(all))

\* the event sequences a run generates or finds in a data file
DriverEventSeqs ==
    SeqsUpTo([userId : DriverUsers, duration : DriverDurations], MaxDriverEvents)

\* the texts a generated program prints or the model replies in a run
DriverOutputTexts ==
    OutputTextsOf(SeqsUpTo([id : DriverUsers, avg : DriverAvgs], MaxDriverActual))

\* what generateCode returns: the cleaned code, or an empty code and the
\* message of the error the call threw (a message may be empty)
CodeResults ==
    {[code |-> c] : c \in GeneratedCodes}
        \cup {[code |-> "", error |-> m] : m \in ErrorMessages \cup {<<>>}}

\* if (r.error): the field is there and is not the empty string
HasError(r) == "error" \in DOMAIN r /\ r.error # <<>>

\* the per-iteration locals are gone when an iteration ends
ResetLocals ==
    /\ events' = <<>>
    /\ correctAnswer' = <<>>
    /\ child' = NoChild
    /\ execResult' = NoResult
    /\ response' = NoResponse
    /\ llmResult' = NoResult

\* the entry a driver pushes for one scale: the error entry when the candidate
\* carries an error, the comparison's accuracy and match otherwise
ScaleResult(size, candidate, answer) ==
    IF HasError(candidate)
    THEN [size |-> size, accuracy |-> 0, success |-> FALSE, error |-> candidate.error]
    ELSE LET cmp == compareResults(answer, candidate.result)
         IN  [size |-> size, accuracy |-> cmp.accuracy, success |-> cmp.match]

Init ==
    /\ pc = "start"
    /\ driver \in {"context", "codegen", "sort", "local"}
    /\ apiKey \in BOOLEAN
    /\ dataDir \in BOOLEAN
    /\ codeResult = NoCode
    /\ i = 0
    /\ results = <<>>
    /\ events = <<>>
    /\ correctAnswer = <<>>
    /\ expected = <<>>
    /\ actual = Null
    /\ comparison = NoComparison
    /\ child = NoChild
    /\ execResult = NoResult
    /\ response = NoResponse
    /\ llmResult = NoResult
    /\ NoCalls
    /\ NoSort
    /\ NoLocal
    /\ NoGenerator
    /\ NoNames

\* context-loading main: the API key check, then the loop
ContextStart ==
    /\ pc = "start"
    /\ driver = "context"
    /\ IF ~apiKey
       THEN pc' = "exit1" /\ i' = i
       ELSE pc' = "loop" /\ i' = 1
    /\ UNCHANGED <<driver, apiKey, dataDir, codeResult, results, refVars, cmpVars, candVars, extVars>>

\* context-loading loop body up to the await: generateEvents (a sequence
\* that is never empty, the sizes being 10 and more), computeCorrectAnswer,
\* askLLMToCompute called
ContextAsk ==
    /\ pc = "loop"
    /\ driver = "context"
    /\ i <= Len(SizesOf(driver))
    /\ \E evs \in DriverEventSeqs :
          /\ Len(evs) > 0
          /\ events' = evs
          /\ correctAnswer' = computeCorrectAnswer(evs)
    /\ response' = [ok |-> FALSE, message |-> <<"pending">>]
    /\ modelCalls' = modelCalls + 1
    /\ pc' = "llm_wait"
    /\ UNCHANGED <<cmpVars, child, execResult, llmResult, drvVars, spawns,
                   sortVars, localVars, genVars, nameVars>>

\* the Model Client replies: askLLMToCompute returns
ContextReply ==
    /\ pc = "llm_wait"
    /\ \E r \in ResponsesOf(DriverOutputTexts) :
          /\ r.ok
          /\ response' = r
          /\ llmResult' = ReplyResult(r.fence, r.body)
    /\ pc' = "record"
    /\ UNCHANGED <<refVars, cmpVars, child, execResult, drvVars, extVars>>

\* the Model Client call throws: askLLMToCompute returns the error
ContextApiError ==
    /\ pc = "llm_wait"
    /\ \E r \in ResponsesOf(DriverOutputTexts) :
          /\ ~r.ok
          /\ response' = r
          /\ llmResult' = ApiErrorResult(r.message)
    /\ pc' = "record"
    /\ UNCHANGED <<refVars, cmpVars, child, execResult, drvVars, extVars>>

\* mutant of ContextRecord: the result is put in front (unshift for push)
ContextRecordInFront ==
    /\ pc = "record"
    /\ driver = "context"
    /\ results' = <<ScaleResult(SizesOf(driver)[i], llmResult, correctAnswer)>> \o results
    /\ i' = i + 1
    /\ pc' = "loop"
    /\ ResetLocals
    /\ UNCHANGED <<cmpVars, driver, apiKey, dataDir, codeResult, extVars>>

\* context-loading loop body after the await: the result is pushed
ContextRecord ==
    /\ pc = "record"
    /\ driver = "context"
    /\ results' = Append(results, ScaleResult(SizesOf(driver)[i], llmResult, correctAnswer))
    /\ i' = i + 1
    /\ pc' = "loop"
    /\ ResetLocals
    /\ UNCHANGED <<cmpVars, driver, apiKey, dataDir, codeResult, extVars>>

\* code-generation main: the API key check, the data directory check, then
\* generateCode called
CodegenStart ==
    /\ pc = "start"
    /\ driver = "codegen"
    /\ IF ~apiKey \/ ~dataDir
       THEN pc' = "exit1" /\ modelCalls' = modelCalls
       ELSE pc' = "gen_wait" /\ modelCalls' = modelCalls + 1
    /\ UNCHANGED <<refVars, cmpVars, candVars, drvVars, spawns,
                   sortVars, localVars, genVars, nameVars>>

\* generateCode returns; an error ends the run
CodegenGenerated ==
    /\ pc = "gen_wait"
    /\ \E cr \in CodeResults :
          /\ codeResult' = cr
          /\ IF HasError(cr)
             THEN pc' = "exit1" /\ i' = i
             ELSE pc' = "loop" /\ i' = 1
    /\ UNCHANGED <<driver, apiKey, dataDir, results, refVars, cmpVars, candVars, extVars>>

\* code-generation loop body: the data file of the size is not there
CodegenSkip ==
    /\ pc = "loop"
    /\ driver = "codegen"
    /\ i <= Len(SizesOf(driver))
    /\ i' = i + 1
    /\ UNCHANGED <<pc, driver, apiKey, dataDir, codeResult, results, refVars, cmpVars, candVars, extVars>>

\* code-generation loop body: the data file is there and readAvroFile
\* rejects; nothing in main catches it
CodegenReadFails ==
    /\ pc = "loop"
    /\ driver = "codegen"
    /\ i <= Len(SizesOf(driver))
    /\ pc' = "rejected"
    /\ UNCHANGED <<refVars, cmpVars, candVars, drvVars, extVars>>

\* mutant of CodegenSpawn: the code is asked for again inside the loop
CodegenSpawnRegenerating ==
    /\ pc = "loop"
    /\ driver = "codegen"
    /\ i <= Len(SizesOf(driver))
    /\ \E evs \in DriverEventSeqs :
          /\ events' = evs
          /\ correctAnswer' = computeCorrectAnswer(evs)
    /\ \E c \in GeneratedCodes :
          /\ child' = [event |-> "running", script |-> c]
          /\ spawns' = Append(spawns, c)
    /\ modelCalls' = modelCalls + 1
    /\ pc' = "exec_wait"
    /\ UNCHANGED <<cmpVars, execResult, response, llmResult, drvVars,
                   sortVars, localVars, genVars, nameVars>>

\* code-generation loop body up to the second await: readAvroFile,
\* computeCorrectAnswer, executeGeneratedCode spawns the program
CodegenSpawn ==
    /\ pc = "loop"
    /\ driver = "codegen"
    /\ i <= Len(SizesOf(driver))
    /\ \E evs \in DriverEventSeqs :
          /\ events' = evs
          /\ correctAnswer' = computeCorrectAnswer(evs)
    /\ child' = [event |-> "running", script |-> codeResult.code]
    /\ spawns' = Append(spawns, codeResult.code)
    /\ pc' = "exec_wait"
    /\ UNCHANGED <<cmpVars, execResult, response, llmResult, drvVars, modelCalls,
                   sortVars, localVars, genVars, nameVars>>

\* the program closes: the close handler resolves the promise
CodegenClose ==
    /\ pc = "exec_wait"
    /\ \E o \in ChildOutcomesOf(DriverOutputTexts) :
          /\ o.event = "close"
          /\ child' = o
          /\ execResult' = CloseResult(o.code, o.stdout, o.stderr)
    /\ pc' = "record"
    /\ UNCHANGED <<refVars, cmpVars, response, llmResult, drvVars, extVars>>

\* the program cannot be spawned: the error handler resolves the promise
CodegenSpawnError ==
    /\ pc = "exec_wait"
    /\ \E o \in ChildOutcomesOf(DriverOutputTexts) :
          /\ o.event = "error"
          /\ child' = o
          /\ execResult' = SpawnErrorResult(o.message)
    /\ pc' = "record"
    /\ UNCHANGED <<refVars, cmpVars, response, llmResult, drvVars, extVars>>

\* code-generation loop body after the await: the result is pushed
CodegenRecord ==
    /\ pc = "record"
    /\ driver = "codegen"
    /\ results' = Append(results, ScaleResult(SizesOf(driver)[i], execResult, correctAnswer))
    /\ i' = i + 1
    /\ pc' = "loop"
    /\ ResetLocals
    /\ UNCHANGED <<cmpVars, driver, apiKey, dataDir, codeResult, extVars>>

----------------------------------------------------------------------------
(* Sorting driver: askLLMToSort, arraysEqual, runSingleTest and main *)

\* The reply of the model to askLLMToSort, by what JSON.parse makes of it:
\* the kinds of OutputTextsOf, where the doc of an "array" is an array of
\* numbers, and "object", a JSON object with a "length" member and members
\* "0", "1", ... that hold the numbers of doc
SortTextsOf(docs) ==
    {[kind |-> k, doc |-> <<>>] : k \in {"empty", "text", "scalar"}}
        \cup {[kind |-> k, doc |-> d] : k \in {"extra", "array", "object"}, d \in docs}

\* generateRandomArray: the arrays that occur, none of them empty
SortArrays == SeqsUpTo(SortValues, MaxSortLen) \ {<<>>}

SortTexts == SortTextsOf(SeqsUpTo(SortValues, MaxSortLen))

\* the arrays and the replies of a driver run: a reply without a fence that
\* is no JSON, the sorted or the unsorted array, or an object; a failed call
DriverNumbers == {<<2, 1>>, <<1, 2>>}
DriverSortResponses ==
    {r \in ResponsesOf(SortTextsOf({<<1, 2>>, <<2, 1>>})) :
        r.ok => r.fence = "none" /\ r.body.kind \in {"text", "array", "object"}}

RECURSIVE SortAscending(_)
\* [...numbers].sort((a, b) => a - b)
SortAscending(a) ==
    IF a = <<>> THEN <<>>
    ELSE LET init == SortAscending(SubSeq(a, 1, Len(a) - 1))
             x    == a[Len(a)]
         IN  SelectSeq(init, LAMBDA e : e - x <= 0)
                 \o <<x>>
                 \o SelectSeq(init, LAMBDA e : e - x > 0)

\* askLLMToSort after a reply: the parsed value is returned as it is
SortReplyResult(fence, body) ==
    LET jsonStr == StripFence(fence, body)
    IN  IF JsonParses(jsonStr)
        THEN [result |-> Some(jsonStr)]
        ELSE [result |-> Null, error |-> <<"Parse error">>]

\* askLLMToSort after the call threw: error is apiError.message
SortApiErrorResult(message) == [result |-> Null, error |-> message]

\* arraysEqual(a, b), b being what JSON.parse returned: b.length and b[i]
\* are read whatever b is.  A scalar has no length, or is a string, whose
\* b[i] are characters and never === a number of a (a is not empty).
arraysEqual(a, b) ==
    /\ b.kind \in {"array", "object"}
    /\ Len(a) = Len(b.doc)
    /\ \A k \in 1..Len(a) : a[k] = b.doc[k]

\* runSingleTest after the await: passed
SinglePassed(nums, result) ==
    IF HasError(result) \/ ~result.result.some
    THEN FALSE
    ELSE arraysEqual(SortAscending(nums), result.result.val)

\* samples.filter(s => s).length
PassedCount(ss) == Len(SelectSeq(ss, LAMBDA b : b))

\* Math.round((passed / SAMPLES_PER_SIZE) * 100)
PassRate(ss) == RoundedPercent(PassedCount(ss), SAMPLES_PER_SIZE)

\* runSingleTest applied to one array and one outcome of the call
InitSortSample ==
    /\ pc = "sort_input"
    /\ numbers \in SortArrays
    /\ response \in ResponsesOf(SortTexts)
    /\ sample = 0
    /\ samples = <<>>
    /\ events = <<>>
    /\ correctAnswer = <<>>
    /\ expected = <<>>
    /\ actual = Null
    /\ comparison = NoComparison
    /\ child = NoChild
    /\ execResult = NoResult
    /\ llmResult = NoResult
    /\ driver = "none"
    /\ apiKey = FALSE
    /\ dataDir = FALSE
    /\ codeResult = NoCode
    /\ i = 0
    /\ results = <<>>
    /\ NoCalls
    /\ NoLocal
    /\ NoGenerator
    /\ NoNames

\* the Model Client replied: askLLMToSort returns, runSingleTest returns
\* passed, main pushes it
OnSortReply ==
    /\ pc = "sort_input"
    /\ response.ok
    /\ llmResult' = SortReplyResult(response.fence, response.body)
    /\ samples' = Append(samples, SinglePassed(numbers, llmResult'))
    /\ pc' = "sort_done"
    /\ UNCHANGED <<numbers, sample, response, child, execResult, refVars, cmpVars,
                   drvVars, callVars, localVars, genVars, nameVars>>

\* the Model Client call threw: askLLMToSort returns the error, runSingleTest
\* returns passed = false, main pushes it
OnSortApiError ==
    /\ pc = "sort_input"
    /\ ~response.ok
    /\ llmResult' = SortApiErrorResult(response.message)
    /\ samples' = Append(samples, SinglePassed(numbers, llmResult'))
    /\ pc' = "sort_done"
    /\ UNCHANGED <<numbers, sample, response, child, execResult, refVars, cmpVars,
                   drvVars, callVars, localVars, genVars, nameVars>>

NextSortSample == OnSortReply \/ OnSortApiError

SpecSortSample == InitSortSample /\ [][NextSortSample]_vars

\* mutant of SortStart: the API key is not looked at
SortStartUnchecked ==
    /\ pc = "start"
    /\ driver = "sort"
    /\ pc' = "loop"
    /\ i' = 1
    /\ UNCHANGED <<driver, apiKey, dataDir, codeResult, results, refVars, cmpVars,
                   candVars, extVars>>

\* sorting main: the API key check, then the loops
SortStart ==
    /\ pc = "start"
    /\ driver = "sort"
    /\ IF ~apiKey
       THEN pc' = "exit1" /\ i' = i
       ELSE pc' = "loop" /\ i' = 1
    /\ UNCHANGED <<driver, apiKey, dataDir, codeResult, results, refVars, cmpVars,
                   candVars, extVars>>

\* inner loop body up to the await: runSingleTest generates the array and
\* askLLMToSort calls the Model Client
SortAsk ==
    /\ pc = "loop"
    /\ driver = "sort"
    /\ i <= Len(SizesOf(driver))
    /\ sample < SAMPLES_PER_SIZE
    /\ numbers' \in DriverNumbers
    /\ modelCalls' = modelCalls + 1
    /\ pc' = "sort_wait"
    /\ UNCHANGED <<sample, samples, spawns, refVars, cmpVars, candVars, drvVars,
                   localVars, genVars, nameVars>>

\* the Model Client replies: askLLMToSort and runSingleTest return, the
\* sample is pushed
SortReply ==
    /\ pc = "sort_wait"
    /\ \E r \in DriverSortResponses :
          /\ r.ok
          /\ samples' = Append(samples,
                               SinglePassed(numbers, SortReplyResult(r.fence, r.body)))
    /\ sample' = sample + 1
    /\ numbers' = <<>>
    /\ pc' = "loop"
    /\ UNCHANGED <<callVars, refVars, cmpVars, candVars, drvVars,
                   localVars, genVars, nameVars>>

\* the Model Client call throws: askLLMToSort and runSingleTest return, the
\* sample is pushed
SortApiError ==
    /\ pc = "sort_wait"
    /\ \E r \in DriverSortResponses :
          /\ ~r.ok
          /\ samples' = Append(samples,
                               SinglePassed(numbers, SortApiErrorResult(r.message)))
    /\ sample' = sample + 1
    /\ numbers' = <<>>
    /\ pc' = "loop"
    /\ UNCHANGED <<callVars, refVars, cmpVars, candVars, drvVars,
                   localVars, genVars, nameVars>>

\* the inner loop is over: results.set(size, {passRate, samples, ...}).  Of
\* the samples the entry keeps how many passed.
SortSizeDone ==
    /\ pc = "loop"
    /\ driver = "sort"
    /\ i <= Len(SizesOf(driver))
    /\ sample = SAMPLES_PER_SIZE
    /\ results' = Append(results, [size     |-> SizesOf(driver)[i],
                                   passRate |-> PassRate(samples),
                                   passed   |-> PassedCount(samples)])
    /\ i' = i + 1
    /\ sample' = 0
    /\ samples' = <<>>
    /\ UNCHANGED <<pc, numbers, driver, apiKey, dataDir, codeResult, callVars,
                   refVars, cmpVars, candVars, localVars, genVars, nameVars>>

----------------------------------------------------------------------------
(* Local benchmark driver: main and benchmarkFile of process-events *)

\* names a data directory may hold: three files of the data generator, a
\* file that is no data file, a data file of another naming
DirNames ==
    {DataFileName(100), DataFileName(1000), DataFileName(1000000),
     <<"n", "o", "t", "e", "s", ".", "t", "x", "t">>,
     <<"o", "l", "d", ".", "a", "v", "r", "o">>}

\* what readdirSync returns: names of the directory, each once, in any order
DirListings ==
    {l \in SeqsUpTo(DirNames, MaxFiles) :
        \A a, b \in 1..Len(l) : a # b => l[a] # l[b]}

\* local main up to the loop: readdirSync throws when the directory is not
\* there and main rejects; with no data file main prints a message and
\* returns
LocalStart ==
    /\ pc = "start"
    /\ driver = "local"
    /\ IF ~dataDir
       THEN pc' = "rejected" /\ files' = files /\ i' = i
       ELSE \E listing \in DirListings :
               /\ files' = DataFiles(listing)
               /\ IF files' = <<>>
                  THEN pc' = "returned" /\ i' = i
                  ELSE pc' = "loop" /\ i' = 1
    /\ UNCHANGED <<driver, apiKey, dataDir, codeResult, results, processed,
                   refVars, cmpVars, candVars, callVars, sortVars, genVars, nameVars>>

\* benchmarkFile up to the await: readAvroFile called for files[i]
LocalRead ==
    /\ pc = "loop"
    /\ driver = "local"
    /\ i <= Len(files)
    /\ pc' = "read_wait"
    /\ UNCHANGED <<refVars, cmpVars, candVars, drvVars, extVars>>

\* readAvroFile resolves: processEvents is timed, benchmarkFile returns
LocalProcess ==
    /\ pc = "read_wait"
    /\ \E evs \in DriverEventSeqs :
          /\ events' = evs
          /\ processed' = processEvents(evs)
    /\ i' = i + 1
    /\ pc' = "loop"
    /\ UNCHANGED <<correctAnswer, files, driver, apiKey, dataDir, codeResult, results,
                   cmpVars, candVars, callVars, sortVars, genVars, nameVars>>

\* readAvroFile rejects: benchmarkFile and main reject
LocalReadFails ==
    /\ pc = "read_wait"
    /\ pc' = "rejected"
    /\ UNCHANGED <<refVars, cmpVars, candVars, drvVars, extVars>>

\* every file is processed: "Benchmark complete!"
LocalComplete ==
    /\ pc = "loop"
    /\ driver = "local"
    /\ i > Len(files)
    /\ pc' = "complete"
    /\ UNCHANGED <<refVars, cmpVars, candVars, drvVars, extVars>>

\* the loop is over: the summary table is printed
Summary ==
    /\ pc = "loop"
    /\ driver \in {"context", "codegen", "sort"}
    /\ i > Len(SizesOf(driver))
    /\ pc' = "summary"
    /\ UNCHANGED <<refVars, cmpVars, candVars, drvVars, extVars>>

\* the exit code of the process once the script has ended: process.exit(1),
\* or 0 after main returned or its rejection was logged by
\* main().catch(console.error)
ExitCode == IF pc = "exit1" THEN 1 ELSE 0

Next ==
    \/ ContextStart
    \/ ContextAsk
    \/ ContextReply
    \/ ContextApiError
    \/ ContextRecord
    \/ CodegenStart
    \/ CodegenGenerated
    \/ CodegenSkip
    \/ CodegenReadFails
    \/ CodegenSpawn
    \/ CodegenClose
    \/ CodegenSpawnError
    \/ CodegenRecord
    \/ SortStart
    \/ SortAsk
    \/ SortReply
    \/ SortApiError
    \/ SortSizeDone
    \/ LocalStart
    \/ LocalRead
    \/ LocalProcess
    \/ LocalReadFails
    \/ LocalComplete
    \/ Summary

Spec == Init /\ [][Next]_vars

----------------------------------------------------------------------------
(* Properties of the reference computation (under SpecRef) *)

\* the string `user${a}` sorts strictly before `user${b}`: it is a proper
\* prefix of it, or the first character that differs is the smaller one
IdBefore(a, b) ==
    LET s == Digits(a)
        t == Digits(b)
    IN  \/ /\ Len(s) < Len(t)
           /\ \A p \in 1..Len(s) : s[p] = t[p]
        \/ \E p \in 1..Len(s) :
              /\ p <= Len(t)
              /\ s[p] < t[p]
              /\ \A q \in 1..(p - 1) : s[q] = t[q]

\* the positions of the events of user u that pass the filter
Kept(evs, u) == {j \in 1..Len(evs) : evs[j].userId = u /\ evs[j].duration >= 50}

RECURSIVE DurationTotal(_, _)
\* the sum of the durations at the positions J
DurationTotal(evs, J) ==
    IF J = {} THEN 0
    ELSE LET j == CHOOSE x \in J : TRUE
         IN  evs[j].duration + DurationTotal(evs, J \ {j})

\* C1: the reference output is sorted ascending by id under the string
\* comparison, holds no id twice, holds an id only if that user has an event
\* with duration >= 50, and each avg is the rounded mean of that user's
\* events of duration >= 50 alone: no event below 50 contributes to it.
C1_SortedFiltered ==
    pc = "ref_done" =>
        /\ \A j, k \in 1..Len(correctAnswer) :
              j < k => IdBefore(correctAnswer[j].id, correctAnswer[k].id)
        /\ \A j, k \in 1..Len(correctAnswer) :
              correctAnswer[j].id = correctAnswer[k].id => j = k
        /\ \A j \in 1..Len(correctAnswer) : Kept(events, correctAnswer[j].id) # {}
        /\ \A j \in 1..Len(correctAnswer) :
              LET J == Kept(events, correctAnswer[j].id)
              IN  2 * Abs(correctAnswer[j].avg * Cardinality(J)
                            - 1000 * DurationTotal(events, J))
                      <= 10 * Cardinality(J)

\* C1 witness: user10 and user2 both pass the filter, out of id order in the
\* input, beside an event below 50
C1_Witness ==
    /\ pc = "ref_done"
    /\ Len(correctAnswer) = 2
    /\ correctAnswer[1].id = 10
    /\ correctAnswer[2].id = 2
    /\ events[1].userId = 2
    /\ \E j \in 1..Len(events) : events[j].duration < 50

C2_WitnessExample ==
    /\ pc = "ref_done"
    /\ events = << [userId |-> 1, duration |-> 60],
                   [userId |-> 1, duration |-> 80],
                   [userId |-> 2, duration |-> 40] >>
    /\ correctAnswer = << [id |-> 1, avg |-> 70000] >>

----------------------------------------------------------------------------
(* Properties of the scorer (under SpecCompare) *)

\* acc is the whole number nearest to 100 * c / t (a half rounds up), and
\* not a number when t = 0
IsRoundedPercent(acc, c, t) ==
    IF t = 0 THEN acc = NaN
    ELSE /\ acc \in 0..100
         /\ 200 * c - t < 2 * t * acc
         /\ 2 * t * acc <= 200 * c + t

\* some entry of arr has e's id and an avg less than 0.1 away
SomeEntryWithin(e, arr) ==
    \E k \in 1..Len(arr) : arr[k].id = e.id /\ Abs(arr[k].avg - e.avg) < 100

\* the first entry of arr that has e's id has an avg less than 0.1 away
FirstEntryWithin(e, arr) ==
    \E k \in 1..Len(arr) :
        /\ arr[k].id = e.id
        /\ \A m \in 1..(k - 1) : arr[m].id # e.id
        /\ Abs(arr[k].avg - e.avg) < 100

\* C3 as stated: correctCount counts the expected entries for which actual
\* holds SOME entry of equal id less than 0.1 away, totalCount is the length
\* of expected and accuracy is round(100 * correctCount / totalCount).
C3_Original ==
    (pc = "cmp_done" /\ actual.some) =>
        /\ comparison.correctCount =
              Cardinality({j \in 1..Len(expected) : SomeEntryWithin(expected[j], actual.val)})
        /\ comparison.totalCount = Len(expected)
        /\ IsRoundedPercent(comparison.accuracy, comparison.correctCount,
                            comparison.totalCount)

\* C3 as amended: correctCount counts the expected entries for which the
\* FIRST entry of actual with equal id is less than 0.1 away; totalCount is
\* the length of expected; accuracy is correctCount / totalCount as a rounded
\* percentage (not a number for an empty expected); a difference of 0.04
\* counts as correct and a difference of 0.20 does not.
C3_FirstMatch ==
    (pc = "cmp_done" /\ actual.some) =>
        /\ comparison.correctCount =
              Cardinality({j \in 1..Len(expected) : FirstEntryWithin(expected[j], actual.val)})
        /\ comparison.totalCount = Len(expected)
        /\ IsRoundedPercent(comparison.accuracy, comparison.correctCount,
                            comparison.totalCount)
        /\ (expected = << [id |-> 1, avg |-> 70000] >>
               /\ actual = Some(<< [id |-> 1, avg |-> 70040] >>))
              => (comparison.correctCount = 1 /\ comparison.accuracy = 100
                    /\ comparison.match)
        /\ (expected = << [id |-> 1, avg |-> 70000] >>
               /\ actual = Some(<< [id |-> 1, avg |-> 70200] >>))
              => (comparison.correctCount = 0 /\ comparison.accuracy = 0
                    /\ ~comparison.match)

\* C3 witness: the candidate holds user1 twice, first 0.20 off and then 0.04
\* off, and the expected user1 is not counted
C3_Witness ==
    /\ pc = "cmp_done"
    /\ expected = << [id |-> 1, avg |-> 70000] >>
    /\ actual = Some(<< [id |-> 1, avg |-> 70200], [id |-> 1, avg |-> 70040] >>)
    /\ comparison.correctCount = 0
    /\ comparison.accuracy = 0

\* the ids of the entries of arr
IdsOf(arr) == {arr[k].id : k \in 1..Len(arr)}

\* C4: match is true exactly when the candidate is present, correctCount is
\* the length of expected and the candidate has the length of expected; a
\* longer candidate never matches; an absent candidate gives match false,
\* correctCount 0 and accuracy 0; two expected entries against one correct
\* entry plus one spurious entry give correctCount 1, accuracy 50, no match.
C4_Match ==
    pc = "cmp_done" =>
        /\ comparison.match <=>
              /\ actual.some
              /\ comparison.correctCount = Len(expected)
              /\ Len(actual.val) = Len(expected)
        /\ (actual.some /\ Len(actual.val) > Len(expected)) => ~comparison.match
        /\ ~actual.some =>
              /\ ~comparison.match
              /\ comparison.correctCount = 0
              /\ comparison.accuracy = 0
              /\ comparison.totalCount = Len(expected)
        /\ ( /\ actual.some
             /\ Len(expected) = 2
             /\ expected[1].id # expected[2].id
             /\ Len(actual.val) = 2
             /\ \E c, x \in 1..2 :
                   /\ c # x
                   /\ \E j \in 1..2 :
                         /\ actual.val[c].id = expected[j].id
                         /\ Abs(actual.val[c].avg - expected[j].avg) < 100
                   /\ actual.val[x].id \notin IdsOf(expected) )
              => /\ comparison.correctCount = 1
                 /\ comparison.accuracy = 50
                 /\ ~comparison.match

\* C4 witness: every expected entry is found, the candidate holds one entry
\* more, and there is no match
C4_Witness ==
    /\ pc = "cmp_done"
    /\ actual.some
    /\ Len(expected) = 1
    /\ Len(actual.val) = 2
    /\ comparison.correctCount = 1
    /\ comparison.accuracy = 100
    /\ ~comparison.match

\* C4 witness of the worked example: one correct and one spurious entry
C4_WitnessExample ==
    /\ pc = "cmp_done"
    /\ expected = << [id |-> 1, avg |-> 70000], [id |-> 2, avg |-> 60000] >>
    /\ actual = Some(<< [id |-> 1, avg |-> 70040], [id |-> 10, avg |-> 70000] >>)
    /\ comparison = [match |-> FALSE, correctCount |-> 1, totalCount |-> 2,
                     accuracy |-> 50]

----------------------------------------------------------------------------
(* Properties of the sandbox and of normalization (under SpecCandidate) *)

\* C6: after a close with a nonzero exit code the result is null and the
\* error is the captured standard error, or 'Process exited with code <code>'
\* when that is empty, whatever standard output holds; exit code 1 with
\* "boom" on standard error gives {result: null, error: "boom"}.
C6_NonzeroExit ==
    (pc = "exec_done" /\ child.event = "close" /\ child.code # 0) =>
        /\ DOMAIN execResult = {"result", "error"}
        /\ execResult.result = Null
        /\ child.stderr # <<>> => execResult.error = child.stderr
        /\ child.stderr = <<>> =>
              /\ Len(execResult.error) = 2
              /\ execResult.error[1] = "Process exited with code "
              /\ execResult.error[2] = ToString(child.code)
        /\ (child.code = 1 /\ child.stderr = <<"boom">>) =>
              execResult = [result |-> Null, error |-> <<"boom">>]

\* C6 witness: exit code 1 and "boom", with a valid JSON array on standard
\* output that is not used
C6_Witness ==
    /\ pc = "exec_done"
    /\ child.event = "close"
    /\ child.code = 1
    /\ child.stderr = <<"boom">>
    /\ child.stdout.kind = "array"
    /\ Len(child.stdout.doc) > 0
    /\ execResult = [result |-> Null, error |-> <<"boom">>]

\* C6 witness of the message that names the exit code
C6_WitnessCode ==
    /\ pc = "exec_done"
    /\ child.event = "close"
    /\ child.stderr = <<>>
    /\ child.stdout.kind = "array"
    /\ execResult = [result |-> Null, error |-> <<"Process exited with code ", "1">>]

\* C7: after a close with exit code 0 and a standard output that is not one
\* JSON array (text that is not JSON, nothing, other output beside the JSON
\* line, JSON that is no array) the promise is resolved with a null result
\* and an error that starts with 'Failed to parse output', which is neither
\* the captured standard error nor the message that names an exit code.
C7_ParseFailure ==
    ( /\ pc = "exec_done"
      /\ child.event = "close"
      /\ child.code = 0
      /\ child.stdout.kind \in {"text", "empty", "extra", "scalar"} ) =>
        /\ DOMAIN execResult = {"result", "error"}
        /\ execResult.result = Null
        /\ Len(execResult.error) >= 1
        /\ execResult.error[1] = "Failed to parse output: "
        /\ execResult.error \notin StderrTexts
        /\ \A c \in ExitCodes :
              execResult.error # <<"Process exited with code ", ToString(c)>>

\* C7 witness: exit code 0 and the JSON line beside other output
C7_Witness ==
    /\ pc = "exec_done"
    /\ child.event = "close"
    /\ child.code = 0
    /\ child.stdout.kind = "extra"
    /\ Len(child.stdout.doc) > 0
    /\ execResult.result = Null
    /\ execResult.error[1] = "Failed to parse output: "

\* out is raw put in ascending order of id with every avg rounded to the
\* nearest hundredth (a half rounds up)
IsNormalizedFrom(out, raw) ==
    /\ Len(out) = Len(raw)
    /\ \A j, k \in 1..Len(out) : j < k => ~IdBefore(out[k].id, out[j].id)
    /\ \E pi \in [1..Len(out) -> 1..Len(out)] :
          /\ \A j, k \in 1..Len(out) : pi[j] = pi[k] => j = k
          /\ \A k \in 1..Len(out) :
                /\ out[k].id = raw[pi[k]].id
                /\ out[k].avg % 10 = 0
                /\ raw[pi[k]].avg - 5 < out[k].avg
                /\ out[k].avg <= raw[pi[k]].avg + 5

\* C8: a result of executeGeneratedCode or of askLLMToCompute that is not
\* null is the parsed array in ascending order of id with every avg rounded
\* to two decimals, whatever order and precision the array had.
C8_Normalized ==
    /\ (pc = "exec_done" /\ execResult.result.some) =>
          IsNormalizedFrom(execResult.result.val, child.stdout.doc)
    /\ (pc = "llm_done" /\ llmResult.result.some) =>
          IsNormalizedFrom(llmResult.result.val, response.body.doc)

\* C8 witness: the program printed user2 before user10 and an avg of 70.005
C8_Witness ==
    /\ pc = "exec_done"
    /\ child.event = "close"
    /\ child.stdout.doc = << [id |-> 2, avg |-> 70005], [id |-> 10, avg |-> 70004] >>
    /\ execResult.result = Some(<< [id |-> 10, avg |-> 70000], [id |-> 2, avg |-> 70010] >>)

\* C8 witness for the model's reply, inside a json fence
C8_WitnessReply ==
    /\ pc = "llm_done"
    /\ response.ok
    /\ response.fence = "json"
    /\ response.body.doc = << [id |-> 2, avg |-> 70005], [id |-> 10, avg |-> 70004] >>
    /\ llmResult.result = Some(<< [id |-> 10, avg |-> 70000], [id |-> 2, avg |-> 70010] >>)

\* C9: normalizing an already normalized sequence changes nothing, entry for
\* entry and in the same order, repeated ids included.
C9_Idempotent ==
    /\ (pc = "exec_done" /\ execResult.result.some) =>
          Normalize(execResult.result.val) = execResult.result.val
    /\ (pc = "llm_done" /\ llmResult.result.some) =>
          Normalize(llmResult.result.val) = llmResult.result.val

\* C9 witness: the same id twice with different averages, one of them with
\* more than two decimals
C9_Witness ==
    /\ pc = "exec_done"
    /\ child.event = "close"
    /\ child.stdout.doc = << [id |-> 2, avg |-> 70200], [id |-> 2, avg |-> 70004] >>
    /\ execResult.result = Some(<< [id |-> 2, avg |-> 70200], [id |-> 2, avg |-> 70000] >>)

----------------------------------------------------------------------------
(* Properties of the drivers (under Spec) *)

\* C5: the accuracy of every recorded result is a whole number from 0 to 100.
C5_AccuracyRange ==
    \A k \in 1..Len(results) : results[k].accuracy \in 0..100

\* C10: no failure met while a scale is processed ends the run before the
\* summary: the failure is recorded as the result of its scale and the loop
\* goes on, so a finished context-loading run holds one result per scale and
\* every error result names the scale it belongs to.
C10_FailuresRecorded ==
    /\ pc # "rejected"
    /\ (pc = "summary" /\ driver = "context") => Len(results) = Len(SizesOf(driver))
    /\ \A k \in 1..Len(results) :
          \E j \in 1..Len(SizesOf(driver)) : results[k].size = SizesOf(driver)[j]

\* C11: in every driver that calls the Model Client a failed call is recorded
\* for its scale as an entry of accuracy 0 that does not match and carries the
\* error message, and the run goes on: the code-generation driver does not
\* end when generateCode has returned an error, and the entry the
\* context-loading driver is about to push for a failed call is that entry.
C11_FailedCallRecorded ==
    /\ (driver = "codegen" /\ codeResult # NoCode /\ "error" \in DOMAIN codeResult)
          => pc # "exit1"
    /\ (driver = "context" /\ pc = "record" /\ ~response.ok)
          => ScaleResult(SizesOf(driver)[i], llmResult, correctAnswer)
                = [size |-> SizesOf(driver)[i], accuracy |-> 0, success |-> FALSE,
                   error |-> response.message]

\* C12: a run of the code-generation driver calls the Model Client once,
\* before the loop, and never inside it, however many scales fail; every
\* subprocess it spawns is given the code that one call returned.
C12_GeneratedOnce ==
    driver = "codegen" =>
        /\ modelCalls <= 1
        /\ pc \in {"loop", "exec_wait", "record", "rejected", "summary"}
              => modelCalls = 1
        /\ \A k \in 1..Len(spawns) : spawns[k] = codeResult.code
        /\ child.event = "running" => child.script = codeResult.code

\* C12 witness: the run is over, two scales were executed with the same
\* fragment after one call, and the first of them failed
C12_Witness ==
    /\ driver = "codegen"
    /\ pc = "summary"
    /\ modelCalls = 1
    /\ spawns = <<"fragment A", "fragment A">>
    /\ Len(results) = 2
    /\ ~results[1].success
    /\ "error" \in DOMAIN results[1]
    /\ results[2].success

\* C13: without the API key a driver that uses the Model Client ends with a
\* nonzero exit code and has made no Model Client call, spawned no subprocess
\* and recorded no result.
C13_NoKeyNoWork ==
    (driver \in {"context", "codegen", "sort"} /\ ~apiKey) =>
        /\ modelCalls = 0
        /\ spawns = <<>>
        /\ results = <<>>
        /\ samples = <<>>
        /\ pc \in {"start", "exit1"}
        /\ pc # "start" => ExitCode # 0

\* C13 witness: the sorting driver has ended for want of the key
C13_Witness ==
    /\ driver = "sort"
    /\ ~apiKey
    /\ pc = "exit1"
    /\ ExitCode = 1
    /\ modelCalls = 0

\* C14: when input data is missing (no data directory, no data file in it,
\* or no file for a requested scale) a driver that reads data files ends with
\* a nonzero exit code before any measurement: the local benchmark that has
\* ended without a data file has a nonzero exit code, and the code-generation
\* driver passes over no scale.
C14_MissingDataIsFatal ==
    /\ (driver = "local" /\ pc \in {"rejected", "returned"} /\ files = <<>>)
          => ExitCode # 0
    /\ (driver = "codegen" /\ ~dataDir /\ pc # "start")
          => ExitCode # 0 /\ results = <<>> /\ spawns = <<>>
    /\ (driver = "codegen" /\ pc \in {"loop", "summary"})
          => Len(results) = i - 1

----------------------------------------------------------------------------
(* Properties of the generators (under SpecGenerator and SpecEvents) *)

\* C15: two calls of the seeded generateEvents with the same count return
\* the same events, and the result for a smaller count is the start of the
\* result for a larger one: nothing of the first call is left in the second.
C15_Deterministic ==
    pc = "gen_done" =>
        LET first == firstRun[1]
        IN  /\ first.count = count => first.events = events
            /\ first.count <= count => first.events = SubSeq(events, 1, first.count)
            /\ count <= first.count => events = SubSeq(first.events, 1, count)

\* C15 witness: a call for two events, then a call for four
C15_Witness ==
    /\ pc = "gen_done"
    /\ firstRun[1].count = 2
    /\ count = 4
    /\ firstRun[1].events = <<[userId |-> 33, duration |-> 68],
                              [userId |-> 32, duration |-> 200]>>
    /\ events[3] = [userId |-> 34, duration |-> 138]

\* C16: every event of a generator, seeded or not, has a user of user1 ..
\* user50 and a whole duration from 10 to 200; the state of the seeded
\* random() stays below 0x7fffffff, so random() stays below 1.
C16_EventsInRange ==
    /\ \A k \in 1..Len(events) :
          /\ events[k].userId \in 1..NUM_USERS
          /\ events[k].duration \in MIN_DURATION..MAX_DURATION
    /\ pc = "seeded" => current \in 0..(Mask31 - 1)

\* C16 witness: event 5389 of the seeded generator, user50 for 199 ms
C16_Witness ==
    /\ pc = "seeded"
    /\ current = 2125009920
    /\ events = <<[userId |-> 50, duration |-> 199]>>

\* C16 witness: the unseeded generator at its largest random values
C16_WitnessUnseeded ==
    /\ pc = "unseeded_done"
    /\ events = <<[userId |-> NUM_USERS, duration |-> MAX_DURATION]>>

----------------------------------------------------------------------------
(* Properties of the local benchmark's computation (under SpecProcess) *)

\* the number of a processEvents entry equals an average in thousandths
SameNumber(mean, avg) == mean.num = avg * mean.den

----------------------------------------------------------------------------
(* Properties of the sorting driver (under SpecSortSample and Spec) *)

\* how often v occurs in a
Occurrences(a, v) == Cardinality({k \in 1..Len(a) : a[k] = v})

\* b is a with its elements in ascending order
IsSortedCopy(b, a) ==
    /\ Len(b) = Len(a)
    /\ \A k \in 1..(Len(b) - 1) : b[k] <= b[k + 1]
    /\ \A v \in SortValues : Occurrences(b, v) = Occurrences(a, v)

\* the model returned a parseable array that is the sorted input
ReturnedSortedArray ==
    /\ response.ok
    /\ StripFence(response.fence, response.body).kind = "array"
    /\ IsSortedCopy(response.body.doc, numbers)

\* C18: a sample is recorded as passed exactly when the model returned a
\* parseable array of the input's length that equals the sorted input
\* element by element; a model error, a parse failure or one element that
\* differs records it as failed.
C18_PassedIffSortedArray ==
    pc = "sort_done" => (samples[1] <=> ReturnedSortedArray)

\* In a run of the sorting driver the Model Client is called once for every
\* sample, SAMPLES_PER_SIZE times for every size, and the pass rate of a
\* size is round(100 * passed / SAMPLES_PER_SIZE).
SortCallsAndRates ==
    driver = "sort" =>
        /\ sample \in 0..SAMPLES_PER_SIZE
        /\ Len(samples) = sample
        /\ pc \in {"loop", "summary"}
              => modelCalls = SAMPLES_PER_SIZE * Len(results) + sample
        /\ pc = "sort_wait"
              => modelCalls = SAMPLES_PER_SIZE * Len(results) + sample + 1
        /\ \A k \in 1..Len(results) :
              /\ results[k].size = ARRAY_SIZES[k]
              /\ results[k].passRate = 10 * results[k].passed

----------------------------------------------------------------------------
(* The wrapper program of createExecutorScript run by the code-generation
   driver: one scale after the other, the spawned program being main() of
   the wrapper with the generated fragment inside *)

\* the arrays of {id, avg} objects a fragment computes or prints
FragmentDocs == SeqsUpTo([id : DriverUsers, avg : DriverAvgs], MaxDriverActual)

\* what the fragment writes to standard output by itself: nothing, text that
\* is not JSON, or a line that is a JSON array
FragmentPrints ==
    {[kind |-> k, doc |-> <<>>] : k \in {"empty", "text"}}
        \cup {[kind |-> "array", doc |-> d] : d \in FragmentDocs}

\* what console.log(JSON.stringify(result)) writes: a JSON array, JSON that
\* is not an array, or "undefined"
ResultLines ==
    {[kind |-> k, doc |-> <<>>] : k \in {"scalar", "text"}}
        \cup {[kind |-> "array", doc |-> d] : d \in FragmentDocs}

\* how main() of the wrapper runs on a data file: readAvroFile rejects, or
\* the fragment writes prints and throws, or the fragment writes prints and
\* leaves a result that is written as line
WrapperRuns ==
    {[end |-> "decode_error"]}
        \cup {[end |-> "throws", prints |-> p] : p \in FragmentPrints}
        \cup {[end |-> "returns", prints |-> p, line |-> l] :
                 p \in FragmentPrints, l \in ResultLines}

\* standard output holding first and then the line of the wrapper
WithLine(first, line) ==
    IF first.kind = "empty" THEN line
    ELSE IF line.kind = "array" THEN [kind |-> "extra", doc |-> line.doc]
    ELSE [kind |-> "text", doc |-> <<>>]

\* main().catch(console.error) of the wrapper: what the process has written
\* when it closes, and its exit code.  A rejection of main is logged to
\* standard error and the process ends with exit code 0.
WrapperExit(run) ==
    IF run.end = "returns"
    THEN [event |-> "close", code |-> 0, stdout |-> WithLine(run.prints, run.line),
          stderr |-> <<>>, threw |-> FALSE]
    ELSE [event |-> "close", code |-> 0,
          stdout |-> IF run.end = "throws" THEN run.prints
                     ELSE [kind |-> "empty", doc |-> <<>>],
          stderr |-> <<"boom">>, threw |-> run.end = "throws"]

\* the code-generation driver at the head of its loop, the code generated
InitWrapper ==
    /\ pc = "loop"
    /\ driver = "codegen"
    /\ apiKey = TRUE
    /\ dataDir = TRUE
    /\ codeResult \in {[code |-> c] : c \in GeneratedCodes}
    /\ i = 1
    /\ results = <<>>
    /\ events = <<>>
    /\ correctAnswer = <<>>
    /\ expected = <<>>
    /\ actual = Null
    /\ comparison = NoComparison
    /\ child = NoChild
    /\ execResult = NoResult
    /\ response = NoResponse
    /\ llmResult = NoResult
    /\ modelCalls = 1
    /\ spawns = <<>>
    /\ NoSort
    /\ NoLocal
    /\ NoGenerator
    /\ NoNames

\* the spawned program runs main() of the wrapper to its end
WrapperMain ==
    /\ pc = "exec_wait"
    /\ child.event = "running"
    /\ \E run \in WrapperRuns : child' = WrapperExit(run)
    /\ pc' = "exec_closed"
    /\ UNCHANGED <<refVars, cmpVars, execResult, response, llmResult, drvVars, extVars>>

\* the close handler of executeGeneratedCode resolves the promise
WrapperClose ==
    /\ pc = "exec_closed"
    /\ execResult' = CloseResult(child.code, child.stdout, child.stderr)
    /\ pc' = "record"
    /\ UNCHANGED <<refVars, cmpVars, child, response, llmResult, drvVars, extVars>>

NextWrapper == CodegenSpawn \/ WrapperMain \/ WrapperClose \/ CodegenRecord

SpecWrapper == InitWrapper /\ [][NextWrapper]_vars

----------------------------------------------------------------------------
(* The data files from the data generator to the drivers that read them *)

\* DATA_SIZES of the data generator
DATA_SIZES == <<100, 1000, 10000, 100000, 1000000>>

\* the data generator is started; i counts the iterations a loop has done
InitNames ==
    /\ pc = "generate"
    /\ NoGenerator
    /\ Idle

\* one iteration of the loop of the data generator's main: the file of the
\* next size is written under its name
GenerateAvroFile ==
    /\ pc = "generate"
    /\ i < Len(DATA_SIZES)
    /\ dataSize' = DATA_SIZES[i + 1]
    /\ filename' = DataFileName(dataSize')
    /\ written' = Append(written, filename')
    /\ i' = i + 1
    /\ pc' = IF i' = Len(DATA_SIZES) THEN "generated" ELSE "generate"
    /\ UNCHANGED <<dirEntries, refVars, cmpVars, candVars, driver, apiKey, dataDir, codeResult,
                   results, callVars, sortVars, localVars, genVars>>

\* local benchmark: readdirSync returns the names of the directory in some
\* order, and main filters and sorts them
ListDataFiles ==
    /\ pc = "generated"
    /\ \E p \in Permutations(1..Len(written)) :
          /\ dirEntries' = [k \in 1..Len(written) |-> written[p[k]]]
          /\ files' = DataFiles(dirEntries')
    /\ i' = 0
    /\ pc' = "listed"
    /\ UNCHANGED <<dataSize, filename, written, refVars, cmpVars, candVars, driver,
                   apiKey, dataDir, codeResult, results, processed, callVars,
                   sortVars, genVars>>

\* code-generation driver: the head of one iteration of the loop of main, the
\* name of the file of the next size is built and existsSync looks for it
LookupDataFile ==
    /\ pc \in {"listed", "skipped"}
    /\ i < Len(TEST_SIZES_CODEGEN)
    /\ dataSize' = TEST_SIZES_CODEGEN[i + 1]
    /\ filename' = LookupFileName(dataSize')
    /\ i' = i + 1
    /\ pc' = IF \E k \in 1..Len(written) : written[k] = filename'
             THEN "listed" ELSE "skipped"
    /\ UNCHANGED <<written, dirEntries, refVars, cmpVars, candVars, driver, apiKey,
                   dataDir, codeResult, results, callVars, sortVars, localVars,
                   genVars>>

NextNames == GenerateAvroFile \/ ListDataFiles \/ LookupDataFile

SpecNames == InitNames /\ [][NextNames]_vars

----------------------------------------------------------------------------
(* Properties of the order of a run (under Spec) *)

\* Model Client calls and subprocesses that have not come back yet
Outstanding ==
    (IF pc \in {"gen_wait", "sort_wait"} \/ response = [ok |-> FALSE, message |-> <<"pending">>]
     THEN 1 ELSE 0)
        + (IF child.event = "running" THEN 1 ELSE 0)

\* the position in the size list of the scale an entry belongs to
ScaleIndex(entry) == CHOOSE j \in 1..Len(SizesOf(driver)) : SizesOf(driver)[j] = entry.size

\* at most one call or subprocess is outstanding; every entry is of a scale
\* of the size list that the loop has left behind; the entries are in
\* strictly ascending order of size
OneScaleAtATime ==
    /\ Outstanding <= 1
    /\ \A k \in 1..Len(results) :
          /\ \E j \in 1..Len(SizesOf(driver)) : SizesOf(driver)[j] = results[k].size
          /\ ScaleIndex(results[k]) < i
    /\ \A k \in 1..(Len(results) - 1) : results[k].size < results[k + 1].size

\* results is left as it is or gets one entry at its end
AppendOnly ==
    \/ results' = results
    \/ /\ Len(results') = Len(results) + 1
       /\ SubSeq(results', 1, Len(results)) = results

\* C19: in every run at most one Model Client call or subprocess is
\* outstanding, the result of a scale is appended before work on the next
\* scale starts, results is in strictly ascending order of size with at most
\* one entry per scale of the size list, and it is only ever appended to.
C19_Sequential == [](OneScaleAtATime) /\ [][AppendOnly]_vars

\* C19 witness: the second scale's subprocess is running and the first
\* scale's result is in the list
C19_Witness ==
    /\ driver = "codegen"
    /\ pc = "exec_wait"
    /\ child.event = "running"
    /\ i = 2
    /\ Len(results) = 1
    /\ results[1].size = 100

----------------------------------------------------------------------------
(* Properties of the data file names (under SpecNames) *)

\* C20: for every size of the size list the name the data generator writes is
\* the name the code-generation driver looks up (no lookup misses its file),
\* getSize of the name is the size, and the list of the local benchmark holds
\* the generated files in ascending order of size.
C20_NamesRoundTrip ==
    /\ pc # "skipped"
    /\ \A k \in 1..Len(written) :
          /\ written[k] = LookupFileName(TEST_SIZES_CODEGEN[k])
          /\ getSize(written[k]) = DATA_SIZES[k]
    /\ pc = "listed" =>
          /\ Len(files) = Len(DATA_SIZES)
          /\ \A k \in 1..Len(files) :
                files[k] = written[k] /\ getSize(files[k]) = DATA_SIZES[k]

\* C20 witness: all five files are written, the directory was listed with
\* the largest file first and sorted, and the lookup for one million events found events-1m.avro
C20_Witness ==
    /\ pc = "listed"
    /\ i = 5
    /\ dataSize = 1000000
    /\ filename = <<"e", "v", "e", "n", "t", "s", "-", "1", "m", ".", "a", "v", "r", "o">>
    /\ written[5] = filename
    /\ dirEntries[1] = filename
    /\ files[5] = filename
    /\ files[2] = <<"e", "v", "e", "n", "t", "s", "-", "1", "k", ".", "a", "v", "r", "o">>

----------------------------------------------------------------------------
(* Properties of the wrapper program (under SpecWrapper) *)

\* the entry the driver is about to push for the scale
PendingEntry == ScaleResult(SizesOf(driver)[i], execResult, correctAnswer)

\* C21: a fragment that threw inside the wrapper before the wrapper printed
\* its JSON line is not recorded as a successful scale: executeGeneratedCode
\* returns a null result with a non-empty error, and the entry of the scale
\* has accuracy 0 and success = false.
C21_ThrowNeverSuccess ==
    (pc = "record" /\ child.threw) =>
        /\ execResult.result = Null
        /\ HasError(execResult)
        /\ PendingEntry.accuracy = 0
        /\ PendingEntry.success = FALSE

\* a fragment that threw and had not itself written a JSON array to standard
\* output is recorded as failed, with the parse failure as its error
ThrowWithoutArrayFails ==
    (pc = "record" /\ child.threw /\ child.stdout.kind # "array") =>
        /\ child.code = 0
        /\ execResult.result = Null
        /\ execResult.error = <<"Failed to parse output: ", Snippet(child.stdout)>>
        /\ PendingEntry.accuracy = 0
        /\ PendingEntry.success = FALSE

\* the fragment threw after writing nothing, and the scale is about to be
\* recorded as failed
ThrowWithoutOutputReached ==
    /\ pc = "record"
    /\ child.threw
    /\ child.code = 0
    /\ child.stdout.kind = "empty"
    /\ correctAnswer # <<>>
    /\ PendingEntry.success = FALSE

\* the fragment wrote the expected array to standard output by itself and
\* then threw, and the scale is about to be recorded as a success
ThrowRecordedAsSuccess ==
    /\ pc = "record"
    /\ child.threw
    /\ child.code = 0
    /\ child.stderr # <<>>
    /\ correctAnswer # <<>>
    /\ ~HasError(execResult)
    /\ PendingEntry.accuracy = 100
    /\ PendingEntry.success = TRUE

====
